---- MODULE Spec2Model ----
(***************************************************************************)
(* Model of app/services/monitoring_service.py (class MonitoringService,   *)
(* one Flask app).                                                         *)
(*                                                                         *)
(* Spec        : the facade and the Flask hooks, one call at a time        *)
(*               (init_app, track_*, before_request, after_request,        *)
(*               handle_exception).                                        *)
(* SpecTracker : the active-user map driven one call at a time             *)
(*               (_track_user_activity, _get_active_users_count).          *)
(* SpecEvict   : the same two methods started from every map contents and  *)
(*               every clock reading.                                      *)
(* SpecConc    : the same two methods run by several request threads,      *)
(*               one access to the shared dict per step.                   *)
(* SpecMon     : init_app interleaved with the monitoring threads it       *)
(*               starts (monitor_system_health).                           *)
(* SpecFlush   : init_app, the monitoring threads and the collections of   *)
(*               the metric reader that call the gauge callbacks.          *)
(***************************************************************************)
EXTENDS Integers, FiniteSets, Sequences, TLC

\* ------------------------------------------------------------------ bounds
NumUsers == 2
MaxWindows == 2
NumThreads == 2
MaxCalls == 4
MaxInits == 2
MaxTicks == 2
MaxFlushes == 3
NumLoggedIn == 1

\* ------------------------------------------------------- program constants
active_user_timeout == 900

Users == 1..NumUsers
Threads == 1..NumThreads
\* The identities flask_login's current_user takes in the requests modelled
\* (0: nobody is logged in).
LoggedIn == {u \in Users : u <= NumLoggedIn}

\* Values time.time() can return: the second before, at and after every
\* multiple of the timeout, so that ages just below, at and just above the
\* threshold occur.
Clock ==
    { t \in 0..(MaxWindows * active_user_timeout + 1) :
        \E k \in 0..MaxWindows :
            /\ t >= k * active_user_timeout - 1
            /\ t <= k * active_user_timeout + 1 }

\* Instants at which the hooks and the request threads read the clock: the
\* start of a window and just after its end.
RequestTimes == {0, active_user_timeout + 1}

\* A key that is not in the dict.
NoEntry == 0 - 1
\* The gauge callback yielded nothing.
NoObservation == 0 - 1

VARIABLES
    active_users,   \* self.active_users: [Users -> Clock \cup {NoEntry}]
    now,            \* the latest value time.time() has returned
    lastTouch,      \* history: value stored by the latest touch of each user
    lastOp,         \* history: the tracker operation that ran last
    observation,    \* value yielded by the latest _get_active_users_count
    repeat          \* history: the latest count() directly followed a
                    \* count() read at the same instant

VARIABLES
    thr,            \* per request thread: where it is inside touch / count
    calls,          \* number of tracker calls started by the threads
    lastRet,        \* history: value stored by the latest returned touch
    lastCount,      \* history: outcome of the latest finished count()
    overlap         \* history: a count() has run concurrently with a touch

VARIABLES
    enabled,            \* self.enabled
    connection_string,  \* self.connection_string: "None" or a string
    tracer,             \* self.tracer: "None" or "set"
    meter,              \* self.meter: "None" or "set"
    instruments,        \* how many of the metric attributes are not None
    hooks,              \* how often the Flask hooks were registered on app
    threads,            \* the monitoring threads started so far
    inits,              \* number of init_app calls made
    lastInit,           \* history: how the latest init_app ended
    initPc              \* where a running init_app is (SpecMon)

VARIABLES
    flushes,            \* collections run by the metric reader of line 115
    lastFlush,          \* history: what the latest collection got per gauge
    failedEvery         \* history: gauges that failed in every collection

VARIABLES
    req,                \* the request being handled by the Flask app, if any
    lastCall,           \* history: what the latest pipeline call did
    everDisabledInit    \* history: some init_app ended with enabled False

trackerVars == <<active_users, now, lastTouch, lastOp, observation, repeat>>
concVars == <<thr, calls, lastRet, lastCount, overlap>>
pipeVars == <<enabled, connection_string, tracer, meter, instruments, hooks,
              threads, inits, lastInit, initPc,
              flushes, lastFlush, failedEvery>>
flushVars == <<flushes, lastFlush, failedEvery>>
appVars == <<req, lastCall, everDisabledInit>>
vars == <<active_users, now, lastTouch, lastOp, observation, repeat,
          thr, calls, lastRet, lastCount, overlap,
          enabled, connection_string, tracer, meter, instruments, hooks,
          threads, inits, lastInit, initPc,
          flushes, lastFlush, failedEvery,
          req, lastCall, everDisabledInit>>

EmptyDict == [u \in Users |-> NoEntry]

\* A thread that is in neither call.
IdleThread ==
    [pc |-> "idle", uid |-> 0, current_time |-> 0, live |-> TRUE,
     frozen |-> EmptyDict, size0 |-> 0, seen |-> {}, inactive |-> {},
     acc |-> EmptyDict, must |-> EmptyDict]

NoCount == [done |-> FALSE, failed |-> FALSE, keys |-> {}, must |-> EmptyDict]

\* The attributes _create_metrics assigns, in the order of lines 154-207.
InstrumentNames ==
    <<"http_request_duration", "http_requests_total", "cpu_usage_gauge",
      "memory_usage_gauge", "disk_usage_gauge", "db_query_duration",
      "active_users_gauge", "user_sessions_counter">>

\* The steps of the try block of init_app that can raise, in order.
SetupSteps ==
    <<"resource", "tracer", "meter">> \o InstrumentNames \o <<"hooks", "thread">>

StepIndex(step) == CHOOSE i \in 1..Len(SetupSteps) : SetupSteps[i] = step

\* fault = 0: nothing raises; fault = i: step i raises.  The steps tried
\* are those after which the rest of the class sees a different object.
StepDone(step, fault) == fault = 0 \/ StepIndex(step) < fault
InitFaults ==
    {0} \cup {StepIndex(step) : step \in {"resource", "meter", "http_requests_total",
                                          "db_query_duration", "user_sessions_counter",
                                          "hooks", "thread"}}

\* ---- what the calls of the facade and of the hooks leave behind
NoError == [id |-> 0, type |-> "", message |-> ""]

\* Errors raised by the application's request handlers.
Errors ==
    {[id |-> 1, type |-> "ValueError", message |-> "bad input"],
     [id |-> 2, type |-> "KeyError", message |-> "missing"]}

\* What a failing tracer, span, instrument or sampler raises.
SdkError == [id |-> 3, type |-> "RuntimeError", message |-> "telemetry"]

\* The observable gauges of _create_metrics (lines 167-186 and 196-201),
\* by the attribute that holds them.
GaugeNames ==
    {"cpu_usage_gauge", "memory_usage_gauge", "disk_usage_gauge", "active_users_gauge"}

\* No collection has run.
NoFlush ==
    [failing |-> "none", called |-> {},
     obs |-> [g \in GaugeNames |-> <<>>],
     raised |-> [g \in GaugeNames |-> NoError]]

\* MonitoringService.__init__ (lines 43-67)
PipeInit ==
    /\ enabled = FALSE
    /\ connection_string = "None"
    /\ tracer = "None"
    /\ meter = "None"
    /\ instruments = 0
    /\ hooks = 0
    /\ threads = <<>>
    /\ inits = 0
    /\ lastInit = "never"
    /\ initPc = "idle"
    /\ flushes = 0
    /\ lastFlush = NoFlush
    /\ failedEvery = GaugeNames

NoSpan == [name |-> "", attrs |-> {}, exc |-> NoError, ended |-> FALSE]

NoCall ==
    [op |-> "none", arg |-> NoError, fault |-> "none", was_enabled |-> FALSE,
     raised |-> NoError, span |-> NoSpan, current_attrs |-> {}, metrics |-> <<>>,
     touched |-> 0, hooks_added |-> 0, threads_started |-> 0,
     given |-> "", response |-> "",
     duration_ms |-> 0, before_enabled |-> FALSE]

NoRequest ==
    [phase |-> "none", user |-> 0, start |-> NoEntry, g_user |-> FALSE,
     recording |-> FALSE, before_enabled |-> FALSE]

AppInit ==
    /\ req = NoRequest
    /\ lastCall = NoCall
    /\ everDisabledInit = FALSE

ConcIdle ==
    /\ thr = [t \in Threads |-> IdleThread]
    /\ calls = 0
    /\ lastRet = EmptyDict
    /\ lastCount = NoCount
    /\ overlap = FALSE

\* len(d)
DictLen(d) == Cardinality({u \in Users : d[u] # NoEntry})

\* line 411: current_time - last_active > self.active_user_timeout
TouchInactiveGe(last_active, current_time) ==
    current_time - last_active >= active_user_timeout

TouchInactive(last_active, current_time) ==
    current_time - last_active > active_user_timeout

\* line 423: current_time - last_active <= self.active_user_timeout
CountKeepsLate(last_active, current_time) ==
    current_time - last_active <= active_user_timeout + 1

CountKeepsStrict(last_active, current_time) ==
    current_time - last_active < active_user_timeout

CountKeeps(last_active, current_time) ==
    current_time - last_active <= active_user_timeout

\* lines 410-413: pop every key the sweep found inactive
SweepInactiveNone(d, current_time) == d

SweepInactive(d, current_time) ==
    [u \in Users |->
        IF d[u] # NoEntry /\ TouchInactive(d[u], current_time)
        THEN NoEntry ELSE d[u]]

\* lines 422-423: the dict comprehension that replaces self.active_users
FilterActiveDropsFirst(d, current_time) ==
    [u \in Users |->
        IF d[u] # NoEntry /\ CountKeeps(d[u], current_time)
           /\ \E v \in Users : v < u /\ d[v] # NoEntry
        THEN d[u] ELSE NoEntry]

FilterActive(d, current_time) ==
    [u \in Users |->
        IF d[u] # NoEntry /\ CountKeeps(d[u], current_time)
        THEN d[u] ELSE NoEntry]

\* _track_user_activity(user_id) run without interruption: t1 is the
\* time.time() of line 407, t2 the one of line 409.
TouchEffect(u, t1, t2) ==
    /\ active_users' = SweepInactive([active_users EXCEPT ![u] = t1], t2)
    /\ lastTouch' = [lastTouch EXCEPT ![u] = t1]
    /\ now' = t2

track_user_activity(u) ==
    /\ \E t1, t2 \in Clock :
        /\ now <= t1
        /\ t1 <= t2
        /\ TouchEffect(u, t1, t2)
    /\ lastOp' = "touch"
    /\ repeat' = FALSE
    /\ UNCHANGED <<observation, concVars, pipeVars, appVars>>

\* _get_active_users_count(options), consumed by the metric reader.
get_active_users_count ==
    /\ \E t \in Clock :
        /\ now <= t
        /\ now' = t
        /\ active_users' = FilterActive(active_users, t)
        /\ observation' = DictLen(FilterActive(active_users, t))
        /\ repeat' = (lastOp = "count" /\ t = now)
    /\ lastOp' = "count"
    /\ UNCHANGED <<lastTouch, concVars, pipeVars, appVars>>

TrackerInit ==
    /\ active_users = EmptyDict
    /\ now = 0
    /\ lastTouch = EmptyDict
    /\ lastOp = "none"
    /\ observation = NoObservation
    /\ repeat = FALSE
    /\ ConcIdle
    /\ PipeInit
    /\ AppInit

TrackerNext ==
    \/ \E u \in Users : track_user_activity(u)
    \/ get_active_users_count

SpecTracker == TrackerInit /\ [][TrackerNext]_vars

\* ------------------------------------------- SpecEvict: the two eviction paths
\* The two methods started from every map the dict can hold at every instant
\* of the clock: entries stored at or before the latest clock reading, fresh
\* or stale.
EvictInit ==
    /\ now \in Clock
    /\ active_users \in [Users -> Clock \cup {NoEntry}]
    /\ \A u \in Users : active_users[u] <= now
    /\ lastTouch = active_users
    /\ lastOp = "none"
    /\ observation = NoObservation
    /\ repeat = FALSE
    /\ ConcIdle
    /\ PipeInit
    /\ AppInit

SpecEvict == EvictInit /\ [][TrackerNext]_vars

\* ------------------------------------------------- SpecConc: request threads
\* The same two methods run by several threads.  One step is one access to
\* the shared dict: the store of line 407, the creation of a dict iterator,
\* one iterator step, one pop of line 413, the rebinding of line 422, the
\* len() of line 424.  The clock is advanced by the environment.

DictKeys(d) == {u \in Users : d[u] # NoEntry}

\* The dict object a thread's iterator walks: the one bound to
\* self.active_users, or one that a count() has replaced meanwhile.
IterDict(t) == IF thr[t].live THEN active_users ELSE thr[t].frozen

InTouch(t) == thr[t].pc \in {"t_sweep", "t_iter", "t_pop"}
InCount(t) == thr[t].pc \in {"c_iter", "c_assign", "c_len"}

\* dict iterator: "dictionary changed size during iteration"
IterChangedSize(t) == DictLen(IterDict(t)) # thr[t].size0
IterRest(t) == DictKeys(IterDict(t)) \ thr[t].seen
IterNextKey(t) == CHOOSE k \in IterRest(t) : \A j \in IterRest(t) : k <= j

\* Between two steps of the threads the clock may pass one whole window.
ClockAdvance ==
    /\ \E t \in RequestTimes : now < t /\ now' = t
    /\ UNCHANGED <<active_users, lastTouch, lastOp, repeat, observation, concVars, pipeVars, appVars>>

\* line 407: self.active_users[user_id] = time.time()
TouchStore(t, u) ==
    /\ thr[t].pc = "idle"
    /\ calls < MaxCalls
    /\ calls' = calls + 1
    /\ active_users' = [active_users EXCEPT ![u] = now]
    /\ thr' = [thr EXCEPT ![t] = [IdleThread EXCEPT !.pc = "t_sweep", !.uid = u,
                                                    !.must = [EmptyDict EXCEPT ![u] = now]]]
    /\ overlap' = (overlap \/ \E o \in Threads : InCount(o))
    /\ UNCHANGED <<now, lastTouch, lastOp, repeat, observation, lastRet, lastCount, pipeVars, appVars>>

\* lines 409-410: current_time = time.time(); iter(self.active_users.items())
TouchSweepBegin(t) ==
    /\ thr[t].pc = "t_sweep"
    /\ thr' = [thr EXCEPT ![t].pc = "t_iter",
                          ![t].current_time = now,
                          ![t].live = TRUE,
                          ![t].size0 = DictLen(active_users),
                          ![t].seen = {},
                          ![t].inactive = {}]
    /\ UNCHANGED <<trackerVars, calls, lastRet, lastCount, overlap, pipeVars, appVars>>

\* The touch returns: the value it stored is what later counts must see.
TouchReturned(t) ==
    /\ lastRet' = [u \in Users |->
                    IF thr[t].must[u] > lastRet[u] THEN thr[t].must[u] ELSE lastRet[u]]
    /\ thr' = [thr EXCEPT ![t] = IdleThread]

\* lines 410-411: one step of the list comprehension over the dict items;
\* a RuntimeError of the iterator is caught at line 414.
TouchIter(t) ==
    /\ thr[t].pc = "t_iter"
    /\ IF IterChangedSize(t)
       THEN TouchReturned(t)
       ELSE IF IterRest(t) = {}
       THEN /\ thr' = [thr EXCEPT ![t].pc = "t_pop"]
            /\ UNCHANGED lastRet
       ELSE /\ thr' = [thr EXCEPT
                        ![t].seen = @ \cup {IterNextKey(t)},
                        ![t].inactive =
                            IF TouchInactive(IterDict(t)[IterNextKey(t)], thr[t].current_time)
                            THEN @ \cup {IterNextKey(t)} ELSE @]
            /\ UNCHANGED lastRet
    /\ UNCHANGED <<trackerVars, calls, lastCount, overlap, pipeVars, appVars>>

\* lines 412-413: self.active_users.pop(uid, None) for the next inactive uid
TouchPop(t) ==
    /\ thr[t].pc = "t_pop"
    /\ IF thr[t].inactive = {}
       THEN /\ TouchReturned(t)
            /\ UNCHANGED active_users
       ELSE LET k == CHOOSE k \in thr[t].inactive : \A j \in thr[t].inactive : k <= j
            IN  /\ active_users' = [active_users EXCEPT ![k] = NoEntry]
                /\ thr' = [thr EXCEPT ![t].inactive = @ \ {k}]
                /\ UNCHANGED lastRet
    /\ UNCHANGED <<now, lastTouch, lastOp, repeat, observation, calls, lastCount, overlap, pipeVars, appVars>>

\* lines 421-422: current_time = time.time(); iter(self.active_users.items())
CountBegin(t) ==
    /\ thr[t].pc = "idle"
    /\ calls < MaxCalls
    /\ calls' = calls + 1
    /\ thr' = [thr EXCEPT ![t] = [IdleThread EXCEPT !.pc = "c_iter",
                                                    !.current_time = now,
                                                    !.size0 = DictLen(active_users),
                                                    !.must = lastRet]]
    /\ overlap' = (overlap \/ \E o \in Threads : InTouch(o))
    /\ UNCHANGED <<trackerVars, lastRet, lastCount, pipeVars, appVars>>

\* lines 422-423: one step of the dict comprehension; a RuntimeError of the
\* iterator is caught at line 425 and nothing is yielded.
CountIter(t) ==
    /\ thr[t].pc = "c_iter"
    /\ IF IterChangedSize(t)
       THEN /\ thr' = [thr EXCEPT ![t] = IdleThread]
            /\ lastCount' = [done |-> TRUE, failed |-> TRUE, keys |-> {},
                             must |-> thr[t].must]
       ELSE IF IterRest(t) = {}
       THEN /\ thr' = [thr EXCEPT ![t].pc = "c_assign"]
            /\ UNCHANGED lastCount
       ELSE /\ thr' = [thr EXCEPT
                        ![t].seen = @ \cup {IterNextKey(t)},
                        ![t].acc =
                            IF CountKeeps(IterDict(t)[IterNextKey(t)], thr[t].current_time)
                            THEN [@ EXCEPT ![IterNextKey(t)] = IterDict(t)[IterNextKey(t)]]
                            ELSE @]
            /\ UNCHANGED lastCount
    /\ UNCHANGED <<trackerVars, calls, lastRet, overlap, pipeVars, appVars>>

\* line 422: self.active_users = {...}.  Iterators of other threads keep
\* walking the dict object that was bound until now.
CountAssign(t) ==
    /\ thr[t].pc = "c_assign"
    /\ active_users' = thr[t].acc
    /\ thr' = [o \in Threads |->
                IF o = t THEN [thr[t] EXCEPT !.pc = "c_len"]
                ELSE IF thr[o].pc \in {"t_iter", "c_iter"} /\ thr[o].live
                THEN [thr[o] EXCEPT !.live = FALSE, !.frozen = active_users]
                ELSE thr[o]]
    /\ UNCHANGED <<now, lastTouch, lastOp, repeat, observation, calls, lastRet, lastCount, overlap, pipeVars, appVars>>

\* line 424: yield metrics.Observation(len(self.active_users))
CountLen(t) ==
    /\ thr[t].pc = "c_len"
    /\ observation' = DictLen(active_users)
    /\ lastCount' = [done |-> TRUE, failed |-> FALSE, keys |-> DictKeys(active_users),
                     must |-> thr[t].must]
    /\ thr' = [thr EXCEPT ![t] = IdleThread]
    /\ UNCHANGED <<active_users, now, lastTouch, lastOp, repeat, calls, lastRet, overlap, pipeVars, appVars>>

ConcNext ==
    \/ ClockAdvance
    \/ \E t \in Threads, u \in Users : TouchStore(t, u)
    \/ \E t \in Threads : TouchSweepBegin(t)
    \/ \E t \in Threads : TouchIter(t)
    \/ \E t \in Threads : TouchPop(t)
    \/ \E t \in Threads : CountBegin(t)
    \/ \E t \in Threads : CountIter(t)
    \/ \E t \in Threads : CountAssign(t)
    \/ \E t \in Threads : CountLen(t)

SpecConc == TrackerInit /\ [][ConcNext]_vars

\* --------------------------------------------------------------- init_app
InstrumentIndex(name) == CHOOSE i \in 1..Len(InstrumentNames) : InstrumentNames[i] = name
HasInstrument(name) == instruments >= InstrumentIndex(name)

Max(a, b) == IF a >= b THEN a ELSE b

\* lines 92-107: self.tracer after the try block ran up to the fault
SetupTracer(fault) == IF StepDone("tracer", fault) THEN "set" ELSE tracer

\* lines 111-118: self.meter
SetupMeterSkips(fault) == meter

SetupMeter(fault) == IF StepDone("meter", fault) THEN "set" ELSE meter

\* lines 148-207: the instrument attributes assigned before the fault;
\* attributes assigned by an earlier call keep their value.
SetupInstruments(fault) ==
    Max(instruments,
        Cardinality({i \in 1..Len(InstrumentNames) : StepDone(InstrumentNames[i], fault)}))

\* lines 235-334: one more registration of the three hooks on the app
SetupHooks(fault) == IF StepDone("hooks", fault) THEN hooks + 1 ELSE hooks

\* lines 137 and 146: self.enabled at the end of the try statement
EnabledAfterSetupStuck(fault) == TRUE

EnabledAfterSetup(fault) == fault = 0

\* A thread object whose start() has returned (lines 347-348).
NewThread == [pc |-> "ready", ticks |-> 0, caught |-> FALSE]

\* ------------------------------------- SpecMon: init_app and its thread
\* init_app in the steps between which the monitoring thread can run, and
\* the loop of monitor_system_health (lines 338-345).

\* lines 72-79
MonInitBegin(cs) ==
    /\ initPc = "idle"
    /\ inits < MaxInits
    /\ inits' = inits + 1
    /\ connection_string' = cs
    /\ IF cs = "None"
       THEN /\ lastInit' = "nocred"
            /\ UNCHANGED initPc
       ELSE /\ initPc' = "setup"
            /\ UNCHANGED lastInit
    /\ UNCHANGED <<enabled, tracer, meter, instruments, hooks, threads>>
    /\ UNCHANGED <<trackerVars, concVars, appVars, flushVars>>

\* lines 81-131, and lines 141-146 when one of them raises
MonInitSetup(fault) ==
    /\ initPc = "setup"
    /\ fault # StepIndex("thread")
    /\ tracer' = SetupTracer(fault)
    /\ meter' = SetupMeter(fault)
    /\ instruments' = SetupInstruments(fault)
    /\ hooks' = SetupHooks(fault)
    /\ IF fault = 0
       THEN /\ initPc' = "start_thread"
            /\ UNCHANGED <<enabled, lastInit>>
       ELSE /\ initPc' = "idle"
            /\ enabled' = EnabledAfterSetup(fault)
            /\ lastInit' = "failed"
    /\ UNCHANGED <<connection_string, threads, inits>>
    /\ UNCHANGED <<trackerVars, concVars, appVars, flushVars>>

\* lines 134, 347-348: Thread(...).start(); it raises when no thread can be
\* started (lines 141-146)
MonInitStartThread(raises) ==
    /\ initPc = "start_thread"
    /\ IF raises
       THEN /\ initPc' = "idle"
            /\ enabled' = EnabledAfterSetup(StepIndex("thread"))
            /\ lastInit' = "failed"
            /\ UNCHANGED threads
       ELSE /\ initPc' = "enable"
            /\ threads' = Append(threads, NewThread)
            /\ UNCHANGED <<enabled, lastInit>>
    /\ UNCHANGED <<connection_string, tracer, meter, instruments, hooks, inits>>
    /\ UNCHANGED <<trackerVars, concVars, appVars, flushVars>>

\* line 137
MonInitEnable ==
    /\ initPc = "enable"
    /\ enabled' = EnabledAfterSetup(0)
    /\ lastInit' = "ok"
    /\ initPc' = "idle"
    /\ UNCHANGED <<connection_string, tracer, meter, instruments, hooks, threads, inits>>
    /\ UNCHANGED <<trackerVars, concVars, appVars, flushVars>>

\* line 340: while self.enabled
MonitorCheck(i) ==
    /\ threads[i].pc = "ready"
    /\ threads' = [threads EXCEPT ![i].pc = IF enabled THEN "sleeping" ELSE "exited"]
    /\ UNCHANGED <<enabled, connection_string, tracer, meter, instruments, hooks,
                   inits, lastInit, initPc>>
    /\ UNCHANGED <<trackerVars, concVars, appVars, flushVars>>

\* lines 344-345: `except Exception as e: logger.error(...)` inside the loop
\* body; the thread goes back to the loop condition.
TickOutcomeExits(raises) == IF raises THEN "exited" ELSE "ready"

TickOutcome(raises) == "ready"

\* lines 341-345: one tick; time.sleep(self.monitor_interval) returns or
\* raises.
MonitorTick(i, raises) ==
    /\ threads[i].pc = "sleeping"
    /\ threads[i].ticks < MaxTicks
    /\ threads' = [threads EXCEPT ![i].pc = TickOutcome(raises),
                                  ![i].ticks = @ + 1,
                                  ![i].caught = raises]
    /\ UNCHANGED <<enabled, connection_string, tracer, meter, instruments, hooks,
                   inits, lastInit, initPc>>
    /\ UNCHANGED <<trackerVars, concVars, appVars, flushVars>>

MonNext ==
    \/ \E cs \in {"None", "InstrumentationKey"} : MonInitBegin(cs)
    \/ \E fault \in InitFaults : MonInitSetup(fault)
    \/ \E raises \in BOOLEAN : MonInitStartThread(raises)
    \/ MonInitEnable
    \/ \E i \in 1..Len(threads) : MonitorCheck(i)
    \/ \E i \in 1..Len(threads), raises \in BOOLEAN : MonitorTick(i, raises)

SpecMon == TrackerInit /\ [][MonNext]_vars

\* ------------------------------------------- Spec: the facade and the hooks
\* Every call runs to completion before the next one starts.

\* n copies of a sequence, one after the other
RECURSIVE Repeat(_, _)
Repeat(sq, n) == IF n = 0 THEN <<>> ELSE sq \o Repeat(sq, n - 1)

\* lines 141-146: `except Exception as e:` logs and returns; nothing is
\* raised to the caller of init_app.
InitRaised(fault) == NoError

\* init_app(app), lines 69-146
init_app(cs, fault) ==
    /\ initPc = "idle"
    /\ inits < MaxInits
    /\ inits' = inits + 1
    /\ connection_string' = cs
    /\ IF cs = "None"
       THEN /\ fault = 0
            /\ lastInit' = "nocred"
            /\ UNCHANGED <<enabled, tracer, meter, instruments, hooks, threads>>
       ELSE /\ tracer' = SetupTracer(fault)
            /\ meter' = SetupMeter(fault)
            /\ instruments' = SetupInstruments(fault)
            /\ hooks' = SetupHooks(fault)
            /\ threads' = IF StepDone("thread", fault)
                          THEN Append(threads, NewThread) ELSE threads
            /\ enabled' = EnabledAfterSetup(fault)
            /\ lastInit' = IF fault = 0 THEN "ok" ELSE "failed"
    /\ lastCall' = [NoCall EXCEPT !.op = "init_app",
                                  !.was_enabled = enabled,
                                  !.fault = IF fault = 0 THEN "none"
                                            ELSE SetupSteps[fault],
                                  !.raised = InitRaised(fault),
                                  !.hooks_added = hooks' - hooks,
                                  !.threads_started = Len(threads') - Len(threads)]
    /\ everDisabledInit' = (everDisabledInit \/ ~enabled')
    /\ UNCHANGED <<initPc, req, trackerVars, concVars, flushVars>>

\* `with self.tracer.start_as_current_span(name) as span:` followed by
\* set_attribute calls; the context manager ends the span on every exit.
SpanOf(name, attrs, fault) ==
    IF fault = "start_span" THEN NoSpan
    ELSE [name |-> name,
          attrs |-> IF fault = "set_attribute" THEN {} ELSE attrs,
          exc |-> IF fault = "set_attribute" THEN SdkError ELSE NoError,
          ended |-> TRUE]

\* lines 385, 401, 473: `except Exception as e: logger.warning(...)`
TrackRaisedLeaks(fault) == IF fault = "none" THEN NoError ELSE SdkError

TrackRaised(fault) == NoError

\* Is a request being handled whose current span records?
CurrentSpanRecording == req.phase = "handling" /\ req.recording

\* track_custom_event(name, properties), lines 375-386
track_custom_event(properties, fault) ==
    /\ fault \in {"none", "start_span", "set_attribute"}
    /\ fault = "set_attribute" => properties # {}
    /\ IF ~enabled \/ tracer = "None"
       THEN /\ fault = "none"
            /\ lastCall' = [NoCall EXCEPT !.op = "track_custom_event",
                                          !.was_enabled = enabled]
       ELSE lastCall' = [NoCall EXCEPT !.op = "track_custom_event",
                                       !.was_enabled = enabled,
                                       !.fault = fault,
                                       !.raised = TrackRaised(fault),
                                       !.span = SpanOf("custom_event", properties, fault)]
    /\ UNCHANGED <<pipeVars, req, everDisabledInit, trackerVars, concVars>>

\* track_database_query(query_name, duration_ms, success), lines 388-402
track_database_query(success, fault) ==
    /\ fault \in {"none", "record"}
    /\ IF ~enabled \/ ~HasInstrument("db_query_duration")
       THEN /\ fault = "none"
            /\ lastCall' = [NoCall EXCEPT !.op = "track_database_query",
                                          !.was_enabled = enabled]
       ELSE lastCall' = [NoCall EXCEPT !.op = "track_database_query",
                                       !.was_enabled = enabled,
                                       !.fault = fault,
                                       !.raised = TrackRaised(fault),
                                       !.metrics =
                                           IF fault = "record" THEN <<>>
                                           ELSE <<[instrument |-> "db_query_duration",
                                                   tag |-> success]>>]
    /\ UNCHANGED <<pipeVars, req, everDisabledInit, trackerVars, concVars>>

\* Attributes track_user_session puts on its own span (lines 445-462).
SessionAttrs(u, fault) ==
    {<<"user.id", ToString(u)>>, <<"enduser.id", ToString(u)>>,
     <<"user_AuthenticatedId", ToString(u)>>, <<"session.event", "login">>}
    \cup (IF req.phase = "handling" /\ fault # "headers"
          THEN {<<"client.ip", "10.0.0.1">>} ELSE {})

\* track_user_session(user_id, event_type, properties), lines 428-474
track_user_session(u, fault) ==
    /\ fault \in {"none", "current_span", "start_span", "set_attribute", "headers", "add"}
    /\ IF ~enabled \/ tracer = "None"
       THEN /\ fault = "none"
            /\ lastCall' = [NoCall EXCEPT !.op = "track_user_session",
                                          !.was_enabled = enabled]
       ELSE lastCall' =
                [NoCall EXCEPT
                    !.op = "track_user_session",
                    !.was_enabled = enabled,
                    !.fault = fault,
                    !.raised = TrackRaised(fault),
                    !.current_attrs =
                        IF CurrentSpanRecording /\ fault # "current_span"
                        THEN {<<"enduser.id", ToString(u)>>,
                              <<"user_AuthenticatedId", ToString(u)>>}
                        ELSE {},
                    !.span =
                        IF fault = "current_span" THEN NoSpan
                        ELSE SpanOf("user_session_login", SessionAttrs(u, fault), fault),
                    !.metrics =
                        IF fault \in {"none", "headers"}
                           /\ HasInstrument("user_sessions_counter")
                        THEN <<[instrument |-> "user_sessions_counter", tag |-> "login"]>>
                        ELSE <<>>]
    /\ UNCHANGED <<pipeVars, req, everDisabledInit, trackerVars, concVars>>

\* Attributes before_request puts on the current span (lines 257-265).
IdentityAttrsNoEnduser(u) ==
    {<<"ai.user.id", ToString(u)>>, <<"ai.user.authUserId", ToString(u)>>,
     <<"user_id", ToString(u)>>}

IdentityAttrs(u) ==
    {<<"enduser.id", ToString(u)>>, <<"ai.user.id", ToString(u)>>,
     <<"ai.user.authUserId", ToString(u)>>, <<"user_id", ToString(u)>>}

\* A request enters the app: Flask runs the before_request functions
\* (lines 238-268), once per registration.  u = 0: nobody is logged in.
RequestBegin(u, recording, fault) ==
    /\ req.phase = "none"
    /\ fault \in {"none", "current_user", "set_attribute"}
    /\ fault = "set_attribute" => (u # 0 /\ recording)
    /\ IF hooks = 0
       THEN /\ fault = "none"
            /\ req' = [NoRequest EXCEPT !.phase = "handling", !.user = u,
                                        !.recording = recording]
            /\ UNCHANGED <<trackerVars, lastCall>>
       ELSE \E t \in RequestTimes :
            /\ now <= t
            /\ req' = [phase |-> "handling", user |-> u, start |-> t,
                       g_user |-> (u # 0 /\ fault # "current_user"),
                       recording |-> recording, before_enabled |-> enabled]
            /\ IF u # 0 /\ fault # "current_user"
               THEN /\ TouchEffect(u, t, t)
                    /\ lastOp' = "touch"
                    /\ repeat' = FALSE
               ELSE /\ now' = t
                    /\ UNCHANGED <<active_users, lastTouch, lastOp, repeat>>
            /\ lastCall' =
                [NoCall EXCEPT
                    !.op = "before_request",
                    !.was_enabled = enabled,
                    !.fault = fault,
                    !.touched = IF fault # "current_user" THEN u ELSE 0,
                    !.current_attrs =
                        IF u # 0 /\ recording /\ fault = "none"
                        THEN IdentityAttrs(u) ELSE {}]
            /\ UNCHANGED observation
    /\ UNCHANGED <<pipeVars, everDisabledInit, concVars>>

\* The values one run of after_request records (lines 291-314).
RequestMetrics(status, fault) ==
    (IF HasInstrument("http_request_duration") /\ fault # "record"
     THEN <<[instrument |-> "http_request_duration", tag |-> status]>> ELSE <<>>)
    \o
    (IF HasInstrument("http_requests_total") /\ fault \notin {"record", "add"}
     THEN <<[instrument |-> "http_requests_total", tag |-> status]>> ELSE <<>>)

\* line 274 / line 319: the response after_request returns
ReturnedResponseNone(response) == "None"

ReturnedResponse(response) == response

\* The handler returned a response: Flask runs the after_request functions
\* (lines 270-319), once per registration, and sends the response.
RequestReturns(status, fault) ==
    /\ req.phase = "handling"
    /\ fault \in {"none", "span_attr", "record", "add"}
    /\ IF hooks = 0
       THEN /\ fault = "none"
            /\ UNCHANGED <<lastCall, now>>
       ELSE IF ~enabled
       THEN /\ fault = "none"
            /\ lastCall' = [NoCall EXCEPT !.op = "after_request",
                                          !.before_enabled = req.before_enabled,
                                          !.given = status,
                                          !.response = ReturnedResponse(status)]
            /\ UNCHANGED now
       ELSE \E t \in RequestTimes :
            /\ now <= t
            /\ now' = t
            /\ fault = "span_attr" => (req.g_user /\ req.recording)
            /\ lastCall' =
                [NoCall EXCEPT
                    !.op = "after_request",
                    !.was_enabled = TRUE,
                    !.before_enabled = req.before_enabled,
                    !.fault = fault,
                    !.given = status,
                    !.response = ReturnedResponse(status),
                    !.current_attrs =
                        IF req.g_user /\ req.recording /\ fault # "span_attr"
                        THEN {<<"ai.user.authUserId", ToString(req.user)>>,
                              <<"user_id", ToString(req.user)>>}
                        ELSE {},
                    !.duration_ms =
                        IF req.start # NoEntry THEN (t - req.start) * 1000 ELSE 0,
                    !.metrics =
                        IF req.start # NoEntry
                        THEN Repeat(RequestMetrics(status, fault), hooks) ELSE <<>>]
    /\ req' = NoRequest
    /\ UNCHANGED <<pipeVars, everDisabledInit, active_users, lastTouch, lastOp, repeat,
                   observation, concVars>>

\* line 334: raise error
HandlerRaisedSwallows(error, fault) == IF fault = "none" THEN error ELSE NoError

HandlerRaised(error, fault) == error

\* The handler raised: Flask calls the function registered for Exception
\* (handle_exception, lines 321-334).  It raises, so Flask's
\* full_dispatch_request is left before finalize_request and no
\* after_request function runs for this request.
RequestRaises(error, fault) ==
    /\ req.phase = "handling"
    /\ fault \in {"none", "start_span", "set_attribute", "record_exception"}
    /\ IF hooks = 0
       THEN /\ fault = "none"
            /\ UNCHANGED lastCall
       ELSE IF ~(enabled /\ tracer = "set")
       THEN /\ fault = "none"
            /\ lastCall' = [NoCall EXCEPT !.op = "handle_exception",
                                          !.was_enabled = enabled,
                                          !.before_enabled = req.before_enabled,
                                          !.arg = error,
                                          !.raised = HandlerRaised(error, fault)]
       ELSE lastCall' =
                [NoCall EXCEPT
                    !.op = "handle_exception",
                    !.was_enabled = enabled,
                    !.before_enabled = req.before_enabled,
                    !.arg = error,
                    !.fault = fault,
                    !.raised = HandlerRaised(error, fault),
                    !.span =
                        IF fault = "start_span" THEN NoSpan
                        ELSE [name |-> "error_handler",
                              attrs |->
                                IF fault = "set_attribute" THEN {}
                                ELSE {<<"error.type", error.type>>,
                                      <<"error.message", error.message>>},
                              exc |-> IF fault = "none" THEN error ELSE SdkError,
                              ended |-> TRUE]]
    /\ req' = NoRequest
    /\ UNCHANGED <<pipeVars, everDisabledInit, trackerVars, concVars>>

Init == TrackerInit

\* ------------------------------------------ SpecFlush: the metric reader
\* init_app one call at a time, the monitoring threads entering their loop,
\* and the collections of the metric reader.

\* psutil readings, in percent.
Percent == {0, 100}

\* The gauges whose instrument attribute has been assigned.
RegisteredGauges == {g \in GaugeNames : HasInstrument(g)}

\* lines 353-357, 361-365, 369-373, 419-426: the generator yields one
\* Observation, or logs the error and yields nothing.
GaugeYield(value, raises) == IF raises THEN <<>> ELSE <<value>>

\* lines 356, 364, 372, 425: `except Exception as e: logger.warning(...)`
GaugeRaisedLeaks(raises) == IF raises THEN SdkError ELSE NoError

GaugeRaised(raises) == NoError

\* One collection of the PeriodicExportingMetricReader created at line 115:
\* it calls the callback of every registered observable gauge.  `failing`
\* is the gauge whose sampler (or another operation inside its try block)
\* raises in this collection, pct what psutil reads.
MetricReaderCollect(failing, pct) ==
    /\ meter = "set"
    /\ flushes < MaxFlushes
    /\ failing \in {"none"} \cup RegisteredGauges
    /\ flushes' = flushes + 1
    /\ failedEvery' = failedEvery \cap {failing}
    /\ \E t \in RequestTimes :
        /\ now <= t
        /\ IF "active_users_gauge" \in RegisteredGauges
           THEN /\ now' = t
                /\ lastOp' = "count"
                /\ repeat' = (lastOp = "count" /\ t = now)
                /\ IF failing = "active_users_gauge"
                   THEN /\ observation' = NoObservation
                        /\ UNCHANGED active_users
                   ELSE /\ active_users' = FilterActive(active_users, t)
                        /\ observation' = DictLen(FilterActive(active_users, t))
           ELSE /\ t = now
                /\ UNCHANGED <<active_users, now, lastOp, repeat, observation>>
        /\ lastFlush' =
            [failing |-> failing,
             called |-> RegisteredGauges,
             obs |-> [g \in GaugeNames |->
                        IF g \notin RegisteredGauges THEN <<>>
                        ELSE IF g = "active_users_gauge"
                        THEN GaugeYield(DictLen(FilterActive(active_users, t)), failing = g)
                        ELSE GaugeYield(pct, failing = g)],
             raised |-> [g \in GaugeNames |->
                        IF g \in RegisteredGauges THEN GaugeRaised(failing = g)
                        ELSE NoError]]
    /\ UNCHANGED <<enabled, connection_string, tracer, meter, instruments, hooks,
                   threads, inits, lastInit, initPc>>
    /\ UNCHANGED <<lastTouch, concVars, appVars>>

FlushNext ==
    \/ \E cs \in {"None", "InstrumentationKey"}, fault \in InitFaults : init_app(cs, fault)
    \/ \E i \in 1..Len(threads) : MonitorCheck(i)
    \/ \E failing \in {"none"} \cup GaugeNames, pct \in Percent :
        MetricReaderCollect(failing, pct)

SpecFlush == Init /\ [][FlushNext]_vars

Next ==
    \/ \E cs \in {"None", "InstrumentationKey"}, fault \in InitFaults : init_app(cs, fault)
    \/ \E properties \in {{}, {<<"plan", "pro">>}},
          fault \in {"none", "start_span", "set_attribute"} :
        track_custom_event(properties, fault)
    \/ \E success \in BOOLEAN, fault \in {"none", "record"} :
        track_database_query(success, fault)
    \/ \E u \in LoggedIn,
          fault \in {"none", "current_span", "start_span", "set_attribute", "headers", "add"} :
        track_user_session(u, fault)
    \/ \E u \in {0} \cup LoggedIn, recording \in BOOLEAN,
          fault \in {"none", "current_user", "set_attribute"} :
        RequestBegin(u, recording, fault)
    \/ \E status \in {"200", "404"}, fault \in {"none", "span_attr", "record", "add"} :
        RequestReturns(status, fault)
    \/ \E error \in Errors,
          fault \in {"none", "start_span", "set_attribute", "record_exception"} :
        RequestRaises(error, fault)

Spec == Init /\ [][Next]_vars

\* ------------------------------------------------------------------ claims

\* Identities whose most recent touch lies within the window ending at t.
InWindow(t) ==
    {u \in Users : lastTouch[u] # NoEntry /\ t - lastTouch[u] <= active_user_timeout}

\* C1 (windowed cardinality): a count() performed after any sequence of
\* touches reports exactly the number of distinct identities whose most
\* recent touch is at most `timeout` seconds before the read time.
C1_WindowedCardinality ==
    lastOp = "count" => observation = Cardinality(InWindow(now))

\* An identity touched exactly `timeout` seconds before the read, another
\* one expired, and the count reports 1.
C1_Witness ==
    /\ lastOp = "count"
    /\ observation = 1
    /\ \E u \in Users : lastTouch[u] # NoEntry /\ now - lastTouch[u] = active_user_timeout
    /\ \E u \in Users : lastTouch[u] # NoEntry /\ now - lastTouch[u] > active_user_timeout

\* C4 (eviction boundary): after a count() read at time `now`, an identity
\* last touched at T is in the map when now < T + timeout and is not in the
\* map when now > T + timeout.
C4_EvictionBoundary ==
    lastOp = "count" =>
        \A u \in Users :
            lastTouch[u] # NoEntry =>
                /\ (now < lastTouch[u] + active_user_timeout => active_users[u] = lastTouch[u])
                /\ (now > lastTouch[u] + active_user_timeout => active_users[u] = NoEntry)

\* One identity read one second before its deadline and another read one
\* second after.
C4_Witness ==
    /\ lastOp = "count"
    /\ \E u \in Users : lastTouch[u] # NoEntry /\ now = lastTouch[u] + active_user_timeout - 1
    /\ \E u \in Users : lastTouch[u] # NoEntry /\ now = lastTouch[u] + active_user_timeout + 1

\* Identities whose touch had returned before the latest count() started and
\* is still inside the window when that count() reports.
MustBeSeen ==
    {u \in Users : lastCount.must[u] # NoEntry
                   /\ now - lastCount.must[u] <= active_user_timeout}

\* C2 (linearizable touch): every count() reports a value, and every touch
\* that returned before the count() started, and is still within the
\* timeout window, is among the identities it counts.
C2_LinearizableTouch ==
    lastCount.done => (~lastCount.failed /\ MustBeSeen \subseteq lastCount.keys)

\* C3 (dedup under concurrent writers): a count() that ran with no touch in
\* flight, after touches that only raced with each other, includes every
\* identity whose touch returned within the window (a dict key: once).
C3_DedupConcurrentWriters ==
    (lastCount.done /\ ~overlap) =>
        (~lastCount.failed /\ MustBeSeen \subseteq lastCount.keys)

\* C10 (background task keeps running): whenever an init_app has completed
\* with enabled = True, the monitoring thread it started has not left its
\* loop.
C10_MonitorKeepsRunning ==
    (initPc = "idle" /\ lastInit = "ok" /\ enabled) =>
        threads[Len(threads)].pc # "exited"

TrackOps == {"track_custom_event", "track_database_query", "track_user_session"}

\* The call opened no span, set no attribute, recorded no metric, touched no
\* identity, registered no hook and started no thread.
NoTelemetry(c) ==
    /\ c.span = NoSpan
    /\ c.current_attrs = {}
    /\ c.metrics = <<>>
    /\ c.touched = 0
    /\ c.hooks_added = 0
    /\ c.threads_started = 0

\* C5 (disabled pipeline is transparent): when the latest init_app found no
\* connection string, that call and every call after it raise nothing and
\* perform no telemetry action.
C5_DisabledIsTransparent ==
    (lastInit = "nocred" /\ lastCall.op # "none") =>
        /\ NoTelemetry(lastCall)
        /\ lastCall.op \in TrackOps => lastCall.raised = NoError

C7_ErrorReRaised ==
    lastCall.op = "handle_exception" =>
        /\ lastCall.raised = lastCall.arg
        /\ (lastCall.was_enabled /\ lastCall.fault = "none") =>
                lastCall.span =
                    [name |-> "error_handler",
                     attrs |-> {<<"error.type", lastCall.arg.type>>,
                                <<"error.message", lastCall.arg.message>>},
                     exc |-> lastCall.arg,
                     ended |-> TRUE]

\* The handler ran enabled, record_exception failed inside the span, and the
\* application's error was raised all the same.
C7_Witness ==
    /\ lastCall.op = "handle_exception"
    /\ lastCall.was_enabled
    /\ lastCall.fault = "record_exception"
    /\ lastCall.raised \in Errors

\* C8 (request-end hook on every exit path): a request whose before_request
\* ran with the pipeline enabled ends with after_request having run, and
\* with its metrics recorded when no instrument failed.
C8_AfterRequestOnEveryExit ==
    (lastCall.op \in {"after_request", "handle_exception"} /\ lastCall.before_enabled) =>
        /\ lastCall.op = "after_request"
        /\ (lastCall.was_enabled /\ lastCall.fault = "none") => lastCall.metrics # <<>>

\* What a track_* call that met no failure leaves behind.
TrackRecorded(c) ==
    /\ c.op = "track_custom_event" => c.span # NoSpan
    /\ c.op = "track_database_query" => c.metrics # <<>>
    /\ c.op = "track_user_session" => (c.span # NoSpan /\ c.metrics # <<>>)

\* C9 (telemetry failures never reach the application): a track_* call made
\* while enabled raises nothing whatever fails underneath, leaves the
\* pipeline enabled, and records its telemetry when nothing fails, whatever
\* the calls before it met.
C9_TelemetryFailuresContained ==
    (lastCall.op \in TrackOps /\ lastCall.was_enabled) =>
        /\ lastCall.raised = NoError
        /\ enabled
        /\ lastCall.fault = "none" => TrackRecorded(lastCall)

\* A session call whose counter failed after its span was written.
C9_Witness ==
    /\ lastCall.op = "track_user_session"
    /\ lastCall.was_enabled
    /\ lastCall.fault = "add"
    /\ lastCall.span # NoSpan

\* What one collection got from the callbacks it called: none of them
\* raised, the failing one yielded nothing, every other one yielded one
\* observation.
FlushIsolated(f) ==
    \A g \in f.called :
        /\ f.raised[g] = NoError
        /\ g = f.failing => f.obs[g] = <<>>
        /\ g # f.failing => Len(f.obs[g]) = 1

AliveThreads == {i \in 1..Len(threads) : threads[i].pc # "exited"}

\* C12 (single background task): after any sequence of init_app calls at
\* most one monitoring thread of the pipeline is alive.
C12_SingleBackgroundTask == Cardinality(AliveThreads) <= 1

\* Failures of instrument registration and of recording: the step of
\* _create_metrics, the record() or the add() that raises.
ProgrammerFaults ==
    {InstrumentNames[i] : i \in 1..Len(InstrumentNames)} \cup {"record", "add"}

\* C13 (programmer errors fail fast): when registering an instrument or
\* recording a value raises inside init_app, track_database_query or
\* track_user_session, the call raises to its caller.
C13_ProgrammerErrorsFailFast ==
    (/\ lastCall.op \in {"init_app", "track_database_query", "track_user_session"}
     /\ lastCall.fault \in ProgrammerFaults)
        => lastCall.raised # NoError

\* A step in which a request enters the app and before_request runs.
BeforeRequestStep == req.phase = "none" /\ req'.phase = "handling" /\ hooks > 0

CountAgainStep == lastOp = "count" /\ lastOp' = "count" /\ now' = now

\* C15 (count is idempotent under no-op reads): a count() that follows a
\* count() with no touch in between and no time elapsed yields the same
\* value and leaves the identities and their last-seen values unchanged.
C15_CountIdempotent ==
    [][CountAgainStep =>
        (observation' = observation /\ active_users' = active_users)]_vars

\* Two count() calls in a row at one instant, over a map that holds an
\* identity.
C15_Witness ==
    /\ repeat
    /\ lastOp = "count"
    /\ observation >= 1
    /\ \E u \in Users : active_users[u] # NoEntry

\* No entry of the map is older than the timeout at the current time.
NoExpiredEntry ==
    \A u \in Users :
        active_users[u] # NoEntry => now - active_users[u] <= active_user_timeout

\* C16 (lazy eviction leaves no expired entry): when a touch or a count has
\* returned at time `now` the map holds no entry older than the timeout, a
\* count reports the number of entries of that map, and an entry leaves the
\* map only in a touch or a count and only when it is expired at the time
\* that call reads.
C16_LazyEviction ==
    /\ [](lastOp \in {"touch", "count"} => NoExpiredEntry)
    /\ [](lastOp = "count" => observation = DictLen(active_users))
    /\ [][\A u \in Users :
            (active_users[u] # NoEntry /\ active_users'[u] = NoEntry) =>
                /\ lastOp' \in {"touch", "count"}
                /\ now' - active_users[u] > active_user_timeout]_vars

\* A touch of one identity has just evicted another one that had expired.
C16_Witness ==
    /\ lastOp = "touch"
    /\ \E u, v \in Users :
        /\ active_users[u] = now
        /\ lastTouch[v] # NoEntry
        /\ now - lastTouch[v] > active_user_timeout
        /\ active_users[v] = NoEntry

\* A step in which the handler's response passes through after_request.
AfterRequestStep ==
    req.phase = "handling" /\ req'.phase = "none" /\ lastCall'.op = "after_request"

\* C17 (one sample and one increment per request): for a request that
\* completes while the pipeline is enabled, whose start time was captured
\* and during which no instrument fails, exactly one value is recorded into
\* the request-duration histogram and exactly 1 is added to the
\* requests-total counter.
C17_OneSampleOneIncrement ==
    [][(AfterRequestStep /\ enabled /\ req.start # NoEntry /\ lastCall'.fault = "none") =>
        lastCall'.metrics =
            <<[instrument |-> "http_request_duration", tag |-> lastCall'.response],
              [instrument |-> "http_requests_total", tag |-> lastCall'.response]>>]_vars

\* C18 (tick failures do not stop the loop): a tick of the monitoring loop,
\* whether or not an error is raised inside it, ends with the thread back at
\* the loop condition and `enabled` as it was, and a thread at the loop
\* condition enters the next interval when the pipeline is enabled.
C18_TickFailuresContained ==
    [][\A i \in 1..Len(threads) :
        /\ (threads[i].pc = "sleeping" /\ threads'[i] # threads[i]) =>
                (threads'[i].pc = "ready" /\ enabled' = enabled)
        /\ (threads[i].pc = "ready" /\ threads'[i] # threads[i] /\ enabled) =>
                threads'[i].pc = "sleeping"]_vars

\* A tick has raised, the error was caught, and the thread is in its next
\* interval.
C18_Witness ==
    \E i \in 1..Len(threads) :
        /\ threads[i].caught
        /\ threads[i].ticks >= 1
        /\ threads[i].pc = "sleeping"
        /\ enabled

\* The tracer, the meter and every instrument attribute are set, the hooks
\* are registered and a monitoring thread has been started.
FullySetUp ==
    /\ tracer = "set"
    /\ meter = "set"
    /\ instruments = Len(InstrumentNames)
    /\ hooks >= 1
    /\ Len(threads) >= 1

\* C19 (enabled implies fully set up): `enabled` is True only when the
\* tracer, the meter, all instruments, the hooks and the monitoring thread
\* are in place; it becomes True only in the last step of init_app, and an
\* init_app whose set-up raised leaves it False.
C19_EnabledImpliesSetUp ==
    /\ [](enabled => FullySetUp)
    /\ [](lastInit = "failed" => ~enabled)
    /\ [][(~enabled /\ enabled') => (initPc = "enable" /\ initPc' = "idle")]_vars

\* A second init_app has completed with the pipeline enabled and every part
\* set up.
C19_Witness ==
    /\ enabled
    /\ initPc = "idle"
    /\ lastInit = "ok"
    /\ inits >= 2
    /\ FullySetUp

\* C20 (response pass-through): after_request returns the response it was
\* given, in every pipeline state and whatever span or metric operation
\* fails inside it; with the pipeline disabled it also records no metric and
\* sets no span attribute.
C20_ResponsePassThrough ==
    lastCall.op = "after_request" =>
        /\ lastCall.response = lastCall.given
        /\ ~lastCall.was_enabled =>
              (lastCall.metrics = <<>> /\ lastCall.current_attrs = {}
               /\ lastCall.span = NoSpan)

\* after_request ran enabled, its histogram raised, and the response came
\* back as given.
C20_Witness ==
    /\ lastCall.op = "after_request"
    /\ lastCall.was_enabled
    /\ lastCall.fault = "record"
    /\ lastCall.given = "404"
    /\ lastCall.response = "404"

\* The identities the sweep of _track_user_activity leaves in d at time t.
SweepSurvivors(d, t) == DictKeys(SweepInactive(d, t))

\* The identities the filter of _get_active_users_count keeps of d at time t.
FilterSurvivors(d, t) == DictKeys(FilterActive(d, t))

\* C21 (the two eviction paths agree): for the map at hand and every clock
\* reading, the sweep of touch and the filter of count leave the same entries
\* with the same last-seen values, and an entry whose age is exactly the
\* timeout is kept by both.
C21_EvictionPathsAgree ==
    \A t \in Clock :
        /\ SweepInactive(active_users, t) = FilterActive(active_users, t)
        /\ \A u \in Users :
              (active_users[u] # NoEntry /\ t - active_users[u] = active_user_timeout) =>
                  (u \in SweepSurvivors(active_users, t) /\ u \in FilterSurvivors(active_users, t))

\* A count() has read a map in which one entry was exactly `timeout` old
\* and another older: it kept the first and dropped the second, and the
\* sweep applied to the same map at the same instant leaves the same entry.
C21_Witness ==
    /\ lastOp = "count"
    /\ \E u, v \in Users :
        /\ lastTouch[u] # NoEntry
        /\ now - lastTouch[u] = active_user_timeout
        /\ lastTouch[v] # NoEntry
        /\ now - lastTouch[v] > active_user_timeout
        /\ DictKeys(active_users) = {u}
        /\ SweepSurvivors(lastTouch, now) = {u}
        /\ FilterSurvivors(lastTouch, now) = {u}

====
